---- MODULE Spec2Model ----
(***************************************************************************)
(* Model of src/app.py, the wine-quality dashboard script.                 *)
(*                                                                         *)
(* A Streamlit script is executed top to bottom on every run.  The model   *)
(* follows one browser session: the program counter pc walks through the   *)
(* sections of the script (load, sidebar, filter, metrics, charts, table); *)
(* when a run is over the user changes a widget and the script is run      *)
(* again from the top.  Script variables do not outlive a run; the         *)
(* st.cache_data entry of load_data and the widget state do.               *)
(*                                                                         *)
(* A value that may be unbound (None) is a sequence of length 0 or 1.      *)
(* A float is an exact fraction <<num, den>>; NaN is <<0, 0>>.             *)
(* Of the eleven feature columns the model keeps the four the script       *)
(* computes with; the other seven are only handed to the chart library.    *)
(***************************************************************************)
EXTENDS Integers, Sequences, FiniteSets

VARIABLES
    redExists,      \* red_path.exists()
    whiteExists,    \* white_path.exists()
    redRows,        \* data rows of winequality-red.csv, in file order
    whiteRows,      \* data rows of winequality-white.csv, in file order
    cache,          \* the st.cache_data entry of load_data()
    ui,             \* widget state of the session: what the user last set
    pc,             \* the section of the script the run is at
    df,             \* script variable df
    wine_selection, \* script variable wine_selection
    quality_range,  \* script variable quality_range
    filtered_df,    \* script variable filtered_df
    metrics,        \* the four values handed to m1..m4.metric
    avg_fsd,        \* script variable avg_fsd
    corr_input,     \* filtered_df.drop(columns=['type']), the input of corr()
    table,          \* the frame handed to st.dataframe
    errors          \* what the run has reported to the user

vars == <<redExists, whiteExists, redRows, whiteRows, cache, ui, pc, df,
          wine_selection, quality_range, filtered_df, metrics, avg_fsd,
          corr_input, table, errors>>

files == <<redExists, whiteExists, redRows, whiteRows>>

----------------------------------------------------------------------------
(* Bounds and input sets *)

\* Most data rows the two files hold together.
MaxRows == 3

\* The rows a file may hold: quality below, inside and above the slider's
\* default range, and two rows of equal quality with different features.
SampleRows ==
    { [quality |-> 3, alcohol |-> 9,  pH |-> 30, residual_sugar |-> 2,
       free_sulfur_dioxide |-> 10],
      [quality |-> 5, alcohol |-> 10, pH |-> 32, residual_sugar |-> 2,
       free_sulfur_dioxide |-> 11],
      [quality |-> 5, alcohol |-> 12, pH |-> 33, residual_sugar |-> 6,
       free_sulfur_dioxide |-> 14],
      [quality |-> 9, alcohol |-> 13, pH |-> 35, residual_sugar |-> 1,
       free_sulfur_dioxide |-> 30] }

SeqsUpTo(S, n) == UNION { [1..k -> S] : k \in 0..n }

None == <<>>
Some(x) == <<x>>

----------------------------------------------------------------------------
(* Program constants *)

WineTypes == {"Red", "White"}
DefaultSelection == {"Red", "White"}
DefaultLo == 4
DefaultHi == 8

----------------------------------------------------------------------------
(* Arithmetic on floats *)

NaN == <<0, 0>>
IsNaN(x) == x[2] = 0

RECURSIVE GCD(_, _)
GCD(a, b) == IF b = 0 THEN a ELSE GCD(b, a % b)

Frac(n, d) ==
    IF d = 0 THEN NaN
    ELSE LET g == GCD(n, d) IN IF g = 0 THEN <<0, 1>> ELSE <<n \div g, d \div g>>

RECURSIVE SumSeq(_)
SumSeq(s) == IF s = <<>> THEN 0 ELSE Head(s) + SumSeq(Tail(s))

\* Mutant: the count guarded against zero, so an empty series has mean 0.
MeanOrZero(s) == Frac(SumSeq(s), IF Len(s) = 0 THEN 1 ELSE Len(s))

\* Series.mean(): sum over count, NaN on an empty series.
Mean(s) == Frac(SumSeq(s), Len(s))

RECURSIVE Insert(_, _)
Insert(x, s) ==
    IF s = <<>> THEN <<x>>
    ELSE IF x <= Head(s) THEN <<x>> \o s
    ELSE <<Head(s)>> \o Insert(x, Tail(s))

RECURSIVE SortAsc(_)
SortAsc(s) == IF s = <<>> THEN <<>> ELSE Insert(Head(s), SortAsc(Tail(s)))

\* Series.median(): the middle of the sorted values, the mean of the two
\* middle ones for an even count, NaN on an empty series.
Median(s) ==
    LET t == SortAsc(s)
        n == Len(s)
    IN  IF n = 0 THEN NaN
        ELSE IF n % 2 = 1 THEN Frac(t[(n + 1) \div 2], 1)
        ELSE Frac(t[n \div 2] + t[n \div 2 + 1], 2)

RECURSIVE Pow10(_)
Pow10(k) == IF k = 0 THEN 1 ELSE 10 * Pow10(k - 1)

\* f"{x:.<digits>f}": "nan" for NaN, else x rounded to that many decimals
\* (ties to even), kept as the integer of its last digit's unit.
Format(x, digits) ==
    IF IsNaN(x) THEN <<"nan", 0>>
    ELSE LET n == x[1] * Pow10(digits)
             q == n \div x[2]
             r == n % x[2]
         IN  IF 2 * r < x[2] THEN <<"num", q>>
             ELSE IF 2 * r > x[2] THEN <<"num", q + 1>>
             ELSE <<"num", IF q % 2 = 0 THEN q ELSE q + 1>>

----------------------------------------------------------------------------
(* Frames *)

\* frame["type"] = label
Tag(rows, label) ==
    [i \in 1..Len(rows) |->
        [type |-> label,
         quality |-> rows[i].quality,
         alcohol |-> rows[i].alcohol,
         pH |-> rows[i].pH,
         residual_sugar |-> rows[i].residual_sugar,
         free_sulfur_dioxide |-> rows[i].free_sulfur_dioxide]]

\* Mutant: the two frames concatenated in the other order.
ConcatWhiteFirst(red, white) == white \o red

\* pd.concat([red, white], ignore_index=True)
Concat(red, white) == red \o white

\* The body of load_data once both files are known to exist.
ReadData(red, white) == Concat(Tag(red, "Red"), Tag(white, "White"))

\* Mutant: the existence test with `and` where the script has `or`.
FilesMissingBoth == ~redExists /\ ~whiteExists

FilesMissing == ~redExists \/ ~whiteExists

Column(frame, col) == [i \in 1..Len(frame) |-> frame[i][col]]

SetMin(S) == CHOOSE x \in S : \A y \in S : x <= y
SetMax(S) == CHOOSE x \in S : \A y \in S : x >= y

Qualities(frame) == { frame[i].quality : i \in 1..Len(frame) }

\* Series.isin(values)
IsIn(v, values) == v \in values

\* Mutant: between(..., inclusive="right").
BetweenLeftOpen(v, left, right) == left < v /\ v <= right

\* Series.between(left, right), inclusive on both sides
Between(v, left, right) == left <= v /\ v <= right

\* Mutant: the two masks joined with | where the script has &.
KeepEither(row, selection, range) ==
    IsIn(row.type, selection) \/ Between(row.quality, range[1], range[2])

Keep(row, selection, range) ==
    IsIn(row.type, selection) /\ Between(row.quality, range[1], range[2])

\* frame[mask]: the rows whose mask is true, in the frame's order
RECURSIVE SelectRows(_, _, _)
SelectRows(frame, selection, range) ==
    IF frame = <<>> THEN <<>>
    ELSE (IF Keep(Head(frame), selection, range) THEN <<Head(frame)>> ELSE <<>>)
         \o SelectRows(Tail(frame), selection, range)

RECURSIVE Reverse(_)
Reverse(s) == IF s = <<>> THEN <<>> ELSE Reverse(Tail(s)) \o <<Head(s)>>

\* Mutant: the selected rows handed on in reverse order.
FilterRowsReversed(frame, selection, range) ==
    Reverse(SelectRows(frame, selection, range))

FilterRows(frame, selection, range) == SelectRows(frame, selection, range)

\* Series.min() and Series.max() of the quality column, then int(): a number
\* for a frame with rows; NaN, which int() refuses, for a frame without.
QualityMin(frame) == SetMin(Qualities(frame))
QualityMax(frame) == SetMax(Qualities(frame))

\* st.sidebar.slider(label, min_value, max_value, value): the bounds the
\* widget is drawn with.  Streamlit makes sure that min <= value(s) <= max by
\* moving the bounds outwards to hold the default value; it does not move
\* the default.
SliderBounds(min_value, max_value, value) ==
    <<IF value[1] < min_value THEN value[1] ELSE min_value,
      IF value[2] > max_value THEN value[2] ELSE max_value>>

\* The pairs a range slider with these bounds can return.
SliderValues(bounds) ==
    { <<lo, hi>> \in (bounds[1]..bounds[2]) \X (bounds[1]..bounds[2]) : lo <= hi }

\* What the multiselect returns: its default until the user has set it.
MultiselectValue == IF ui = None THEN DefaultSelection ELSE ui[1].selection

\* What the slider returns: its default until the user has set it.
SliderValue == IF ui = None THEN <<DefaultLo, DefaultHi>> ELSE ui[1].range

RECURSIVE SetToAscSeq(_)
SetToAscSeq(S) ==
    IF S = {} THEN <<>>
    ELSE LET m == SetMin(S) IN <<m>> \o SetToAscSeq(S \ {m})

RECURSIVE FirstSeen(_, _)
FirstSeen(frame, seen) ==
    IF frame = <<>> THEN <<>>
    ELSE IF Head(frame).quality \in seen THEN FirstSeen(Tail(frame), seen)
    ELSE <<Head(frame).quality>>
         \o FirstSeen(Tail(frame), seen \cup {Head(frame).quality})

\* Mutant: groupby with sort=False, the keys in order of first appearance.
GroupKeysUnsorted(frame) == FirstSeen(frame, {})

\* groupby('quality'), sort=True by default: the distinct keys, ascending.
GroupKeys(frame) == SetToAscSeq(Qualities(frame))

RECURSIVE RowsWithQuality(_, _)
RowsWithQuality(frame, q) ==
    IF frame = <<>> THEN <<>>
    ELSE (IF Head(frame).quality = q THEN <<Head(frame)>> ELSE <<>>)
         \o RowsWithQuality(Tail(frame), q)

\* frame.groupby('quality')['free sulfur dioxide'].mean().reset_index()
GroupedMean(frame) ==
    LET keys == GroupKeys(frame)
    IN  [i \in 1..Len(keys) |->
            [quality |-> keys[i],
             free_sulfur_dioxide |->
                Mean(Column(RowsWithQuality(frame, keys[i]),
                            "free_sulfur_dioxide"))]]

\* frame.drop(columns=['type'])
DropType(frame) ==
    [i \in 1..Len(frame) |->
        [quality |-> frame[i].quality,
         alcohol |-> frame[i].alcohol,
         pH |-> frame[i].pH,
         residual_sugar |-> frame[i].residual_sugar,
         free_sulfur_dioxide |-> frame[i].free_sulfur_dioxide]]

\* The header's sample count and the four values of the metric row.
Metrics(frame) ==
    [count |-> Len(frame),
     quality_mean |-> Mean(Column(frame, "quality")),
     alcohol_mean |-> Mean(Column(frame, "alcohol")),
     pH_median |-> Median(Column(frame, "pH")),
     sugar_mean |-> Mean(Column(frame, "residual_sugar")),
     m1 |-> Format(Mean(Column(frame, "quality")), 2),
     m2 |-> Format(Mean(Column(frame, "alcohol")), 1),
     m3 |-> Format(Median(Column(frame, "pH")), 2),
     m4 |-> Format(Mean(Column(frame, "residual_sugar")), 2)]

----------------------------------------------------------------------------
(* The session *)

FileSystems ==
    { fs \in [redExists : BOOLEAN, whiteExists : BOOLEAN,
              redRows : SeqsUpTo(SampleRows, MaxRows),
              whiteRows : SeqsUpTo(SampleRows, MaxRows)] :
        /\ Len(fs.redRows) + Len(fs.whiteRows) <= MaxRows
        /\ (~fs.redExists => fs.redRows = <<>>)
        /\ (~fs.whiteExists => fs.whiteRows = <<>>) }

ScriptUnbound ==
    /\ df = None
    /\ wine_selection = None
    /\ quality_range = None
    /\ filtered_df = None
    /\ metrics = None
    /\ avg_fsd = None
    /\ corr_input = None
    /\ table = None

Init ==
    /\ \E fs \in FileSystems :
         /\ redExists = fs.redExists
         /\ whiteExists = fs.whiteExists
         /\ redRows = fs.redRows
         /\ whiteRows = fs.whiteRows
    /\ cache = None
    /\ ui = None
    /\ pc = "load"
    /\ ScriptUnbound
    /\ errors = <<>>

\* load_data(), no cache entry, a file is absent: st.error, then st.stop.
LoadMissing ==
    /\ pc = "load"
    /\ cache = None
    /\ FilesMissing
    /\ errors' = Append(errors, "Data files not found")
    /\ pc' = "stopped"
    /\ UNCHANGED <<files, cache, ui, df, wine_selection, quality_range,
                   filtered_df, metrics, avg_fsd, corr_input, table>>

\* load_data(), no cache entry, both files there: read, tag, concatenate;
\* the result is stored in the cache and bound to df.
LoadRead ==
    /\ pc = "load"
    /\ cache = None
    /\ ~FilesMissing
    /\ cache' = Some(ReadData(redRows, whiteRows))
    /\ df' = Some(ReadData(redRows, whiteRows))
    /\ pc' = "sidebar"
    /\ UNCHANGED <<files, ui, wine_selection, quality_range, filtered_df,
                   metrics, avg_fsd, corr_input, table, errors>>

\* load_data() with a cache entry: the body is skipped, df is the entry.
LoadCached ==
    /\ pc = "load"
    /\ cache # None
    /\ df' = cache
    /\ pc' = "sidebar"
    /\ UNCHANGED <<files, cache, ui, wine_selection, quality_range,
                   filtered_df, metrics, avg_fsd, corr_input, table, errors>>

\* The sidebar over a frame without rows: the multiselect is read, then
\* int(df.quality.min()) raises on NaN and the run ends with the exception.
SidebarRaises ==
    /\ pc = "sidebar"
    /\ df[1] = <<>>
    /\ wine_selection' = Some(MultiselectValue)
    /\ errors' = Append(errors, "ValueError")
    /\ pc' = "raised"
    /\ UNCHANGED <<files, cache, ui, df, quality_range, filtered_df, metrics,
                   avg_fsd, corr_input, table>>

\* The sidebar: both widgets are read.
Sidebar ==
    /\ pc = "sidebar"
    /\ df[1] # <<>>
    /\ wine_selection' = Some(MultiselectValue)
    /\ quality_range' = Some(SliderValue)
    /\ pc' = "filter"
    /\ UNCHANGED <<files, cache, ui, df, filtered_df, metrics, avg_fsd,
                   corr_input, table, errors>>

\* Mutant: the filter applied in place, df rebound to the filtered frame.
ApplyFilterInPlace ==
    /\ pc = "filter"
    /\ df' = Some(FilterRows(df[1], wine_selection[1], quality_range[1]))
    /\ filtered_df' = df'
    /\ pc' = "metrics"
    /\ UNCHANGED <<files, cache, ui, wine_selection, quality_range,
                   metrics, avg_fsd, corr_input, table, errors>>

\* Mutant: the filtered frame written back as the cached base, so that the
\* next run narrows the previous result.
ApplyFilterIncremental ==
    /\ pc = "filter"
    /\ filtered_df' = Some(FilterRows(df[1], wine_selection[1], quality_range[1]))
    /\ cache' = filtered_df'
    /\ pc' = "metrics"
    /\ UNCHANGED <<files, ui, df, wine_selection, quality_range,
                   metrics, avg_fsd, corr_input, table, errors>>

\* filtered_df = df[isin & between]
ApplyFilter ==
    /\ pc = "filter"
    /\ filtered_df' = Some(FilterRows(df[1], wine_selection[1], quality_range[1]))
    /\ pc' = "metrics"
    /\ UNCHANGED <<files, cache, ui, df, wine_selection, quality_range,
                   metrics, avg_fsd, corr_input, table, errors>>

\* The header and the metric row.
ShowMetrics ==
    /\ pc = "metrics"
    /\ metrics' = Some(Metrics(filtered_df[1]))
    /\ pc' = "charts"
    /\ UNCHANGED <<files, cache, ui, df, wine_selection, quality_range,
                   filtered_df, avg_fsd, corr_input, table, errors>>

\* The ten charts: eight take filtered_df as it is, chart 9 the grouped
\* mean, chart 10 the correlation of the frame without its type column.
ShowCharts ==
    /\ pc = "charts"
    /\ avg_fsd' = Some(GroupedMean(filtered_df[1]))
    /\ corr_input' = Some(DropType(filtered_df[1]))
    /\ pc' = "table"
    /\ UNCHANGED <<files, cache, ui, df, wine_selection, quality_range,
                   filtered_df, metrics, table, errors>>

\* The raw-data expander; the run is over.
ShowTable ==
    /\ pc = "table"
    /\ table' = filtered_df
    /\ pc' = "idle"
    /\ UNCHANGED <<files, cache, ui, df, wine_selection, quality_range,
                   filtered_df, metrics, avg_fsd, corr_input, errors>>

\* A new run starts with nothing bound and an empty page.
NewRun ==
    /\ pc' = "load"
    /\ df' = None
    /\ wine_selection' = None
    /\ quality_range' = None
    /\ filtered_df' = None
    /\ metrics' = None
    /\ avg_fsd' = None
    /\ corr_input' = None
    /\ table' = None
    /\ errors' = <<>>

\* The user changes the multiselect of the finished run; the script runs
\* again.
ChangeSelection ==
    /\ pc = "idle"
    /\ \E selection \in SUBSET WineTypes :
          ui' = Some([selection |-> selection, range |-> SliderValue])
    /\ NewRun
    /\ UNCHANGED <<files, cache>>

\* The user moves the slider of the finished run, within the bounds it was
\* drawn with; the script runs again.
ChangeRange ==
    /\ pc = "idle"
    /\ \E range \in SliderValues(SliderBounds(QualityMin(df[1]), QualityMax(df[1]),
                                              <<DefaultLo, DefaultHi>>)) :
          ui' = Some([selection |-> MultiselectValue, range |-> range])
    /\ NewRun
    /\ UNCHANGED <<files, cache>>

\* The user reloads a page whose run ended early; the script runs again.
Reload ==
    /\ pc \in {"stopped", "raised"}
    /\ NewRun
    /\ UNCHANGED <<files, cache, ui>>

Next ==
    \/ LoadMissing
    \/ LoadRead
    \/ LoadCached
    \/ SidebarRaises
    \/ Sidebar
    \/ ApplyFilter
    \/ ShowMetrics
    \/ ShowCharts
    \/ ShowTable
    \/ ChangeSelection
    \/ ChangeRange
    \/ Reload

Spec == Init /\ [][Next]_vars

----------------------------------------------------------------------------
(* Vocabulary of the properties *)

Rows(s) == { s[i] : i \in DOMAIN s }
Count(s, r) == Cardinality({ i \in DOMAIN s : s[i] = r })
SameBag(s, t) == Len(s) = Len(t) /\ \A r \in Rows(s) \cup Rows(t) : Count(s, r) = Count(t, r)

RECURSIVE Pick(_, _)
Pick(s, I) ==
    IF I = {} THEN <<>>
    ELSE LET m == SetMin(I) IN <<s[m]>> \o Pick(s, I \ {m})

\* f is d with some rows left out, the others in d's order.
IsSubSeq(f, d) == \E I \in SUBSET DOMAIN d : Pick(d, I) = f

\* The criteria in force: the widgets' defaults until the user sets them.
CriteriaLabels == IF ui = None THEN {"Red", "White"} ELSE ui[1].selection
CriteriaRange == IF ui = None THEN <<4, 8>> ELSE ui[1].range

\* The frame the two files describe.
BaseOfFiles ==
    [i \in 1..(Len(redRows) + Len(whiteRows)) |->
        IF i <= Len(redRows)
        THEN [c \in {"type"} \cup DOMAIN redRows[i] |->
                 IF c = "type" THEN "Red" ELSE redRows[i][c]]
        ELSE LET w == whiteRows[i - Len(redRows)]
             IN  [c \in {"type"} \cup DOMAIN w |->
                     IF c = "type" THEN "White" ELSE w[c]]]

----------------------------------------------------------------------------
(* C1 *)

\* C1: the filter keeps a row if and only if its label is selected and its
\* quality lies in [lo, hi], both ends included: a row that meets both
\* conditions is in the result as often as in df, any other row not at all.
C1_FilterInclusion ==
    filtered_df # None =>
        LET d == df[1]
            f == filtered_df[1]
            labels == wine_selection[1]
            lo == quality_range[1][1]
            hi == quality_range[1][2]
        IN  \A r \in Rows(d) \cup Rows(f) :
                Count(f, r) = IF r.type \in labels /\ lo <= r.quality /\ r.quality <= hi
                              THEN Count(d, r)
                              ELSE 0

\* A result that keeps a row whose quality is the lower end of the interval
\* and drops one row for its label and another for its quality.
C1_Witness ==
    /\ filtered_df # None
    /\ \E r \in Rows(filtered_df[1]) : r.quality = quality_range[1][1]
    /\ \E r \in Rows(df[1]) : r.type \notin wine_selection[1]
    /\ \E r \in Rows(df[1]) :
          r.type \in wine_selection[1] /\ r.quality > quality_range[1][2]

----------------------------------------------------------------------------
(* C2 *)

\* C2: while one of the two files is absent nothing is loaded (no cache
\* entry, df unbound), no later section of the script is reached (no
\* criteria, no filtered frame, no metrics, no chart input, no table), and a
\* run that has left load_data has stopped with the failure on the page.
C2_MissingFileHalts ==
    (~redExists \/ ~whiteExists) =>
        /\ cache = None
        /\ df = None
        /\ wine_selection = None
        /\ quality_range = None
        /\ filtered_df = None
        /\ metrics = None
        /\ avg_fsd = None
        /\ corr_input = None
        /\ table = None
        /\ pc \in {"load", "stopped"}
        /\ (pc = "stopped" => errors = <<"Data files not found">>)

\* A run stopped by the absence of the white file alone.
C2_Witness ==
    /\ redExists
    /\ redRows # <<>>
    /\ ~whiteExists
    /\ pc = "stopped"

----------------------------------------------------------------------------
(* C3 *)

\* C3: df is the rows of the red file in file order, each labelled Red,
\* followed by the rows of the white file in file order, each labelled
\* White: as many rows as the two files hold, none with the other label.
C3_LoadTagsAndConcatenates ==
    df # None =>
        /\ Len(df[1]) = Len(redRows) + Len(whiteRows)
        /\ \A i \in 1..Len(redRows) :
              /\ df[1][i].type = "Red"
              /\ [c \in DOMAIN redRows[i] |-> df[1][i][c]] = redRows[i]
        /\ \A i \in 1..Len(whiteRows) :
              LET row == df[1][Len(redRows) + i]
              IN  /\ row.type = "White"
                  /\ [c \in DOMAIN whiteRows[i] |-> row[c]] = whiteRows[i]

\* A frame loaded from two red rows that differ and a white row.
C3_Witness ==
    /\ df # None
    /\ Len(redRows) = 2
    /\ redRows[1] # redRows[2]
    /\ Len(whiteRows) = 1
    /\ whiteRows[1] # redRows[2]

----------------------------------------------------------------------------
(* C4 *)

\* C4: whenever quality_range is bound, lo <= hi and both lie between the
\* smallest and the largest quality of df.
C4_RangeWithinObserved ==
    quality_range # None =>
        /\ quality_range[1][1] <= quality_range[1][2]
        /\ QualityMin(df[1]) <= quality_range[1][1]
        /\ quality_range[1][2] <= QualityMax(df[1])

----------------------------------------------------------------------------
(* C5 *)

\* C5: once load_data has returned, the base frame stays what it was: the
\* cache entry never changes, df is that entry whenever it is bound, and no
\* step of a run changes df.
C5_BaseNeverMutated ==
    /\ [](df # None => df = cache)
    /\ [][/\ (cache # None => cache' = cache)
          /\ (df # None /\ df' # None => df' = df)]_vars

\* A later run of a session in which the filter has dropped rows of the base.
C5_Witness ==
    /\ ui # None
    /\ pc = "idle"
    /\ Len(df[1]) = 3
    /\ Len(filtered_df[1]) = 1
    /\ avg_fsd # None
    /\ corr_input # None

----------------------------------------------------------------------------
(* C6 *)

\* C6: avg_fsd has one entry for each quality that occurs in filtered_df and
\* no other entry, the entries ascend strictly by quality, and each entry's
\* value is the sum of free sulfur dioxide over the rows of filtered_df with
\* that quality divided by the number of those rows.
C6_GroupedMean ==
    avg_fsd # None =>
        LET f == filtered_df[1]
            g == avg_fsd[1]
        IN  /\ { g[i].quality : i \in DOMAIN g } = { f[j].quality : j \in DOMAIN f }
            /\ \A i \in DOMAIN g : \A k \in DOMAIN g :
                  i < k => g[i].quality < g[k].quality
            /\ \A i \in DOMAIN g :
                  LET J == { j \in DOMAIN f : f[j].quality = g[i].quality }
                      total == SumSeq(Pick([j \in DOMAIN f |-> f[j].free_sulfur_dioxide], J))
                      m == g[i].free_sulfur_dioxide
                  IN  /\ m[2] > 0
                      /\ m[1] * Cardinality(J) = total * m[2]

\* A series of two groups over a frame whose qualities first appear in
\* descending order, one group the mean of two rows that differ.
C6_Witness ==
    /\ avg_fsd # None
    /\ Len(avg_fsd[1]) = 2
    /\ Len(filtered_df[1]) = 3
    /\ filtered_df[1][1].quality > filtered_df[1][3].quality
    /\ \E i \in DOMAIN avg_fsd[1] : avg_fsd[1][i].free_sulfur_dioxide[2] = 2

----------------------------------------------------------------------------
(* C7 *)

AllNaN(m) ==
    /\ IsNaN(m.quality_mean) /\ IsNaN(m.alcohol_mean)
    /\ IsNaN(m.pH_median) /\ IsNaN(m.sugar_mean)
    /\ m.m1[1] = "nan" /\ m.m2[1] = "nan" /\ m.m3[1] = "nan" /\ m.m4[1] = "nan"

NoneNaN(m) ==
    /\ ~IsNaN(m.quality_mean) /\ ~IsNaN(m.alcohol_mean)
    /\ ~IsNaN(m.pH_median) /\ ~IsNaN(m.sugar_mean)
    /\ m.m1[1] = "num" /\ m.m2[1] = "num" /\ m.m3[1] = "num" /\ m.m4[1] = "num"

\* C7: an empty label selection gives an empty filtered frame; over an empty
\* filtered frame each of the four statistics is NaN and is shown as "nan",
\* over any other frame none of them is; and the run goes on past the metric
\* row: a run that ended with an exception never got as far as the filter.
C7_EmptyGivesSentinel ==
    /\ (filtered_df # None /\ wine_selection[1] = {} => filtered_df[1] = <<>>)
    /\ (metrics # None =>
           /\ (filtered_df[1] = <<>> => AllNaN(metrics[1]) /\ metrics[1].count = 0)
           /\ (filtered_df[1] # <<>> => NoneNaN(metrics[1]))
           /\ pc \in {"charts", "table", "idle"})
    /\ (pc = "raised" => filtered_df = None)

\* A finished run over a base with rows and no label selected.
C7_Witness ==
    /\ pc = "idle"
    /\ df[1] # <<>>
    /\ wine_selection[1] = {}
    /\ filtered_df[1] = <<>>
    /\ metrics # None

----------------------------------------------------------------------------
(* C8 *)

\* C8: with both labels selected and the interval set to the smallest and
\* the largest quality of df, the filtered frame holds every row of df as
\* often as df does, and no other row.
C8_FullCriteriaKeepAll ==
    (/\ filtered_df # None
     /\ wine_selection[1] = {"Red", "White"}
     /\ quality_range[1] = <<QualityMin(df[1]), QualityMax(df[1])>>)
        => SameBag(filtered_df[1], df[1])

\* The user has set the slider to the observed ends of a base of three rows
\* whose qualities differ, and the filter has run.
C8_Witness ==
    /\ ui # None
    /\ filtered_df # None
    /\ Len(df[1]) = 3
    /\ wine_selection[1] = {"Red", "White"}
    /\ QualityMin(df[1]) < QualityMax(df[1])
    /\ quality_range[1] = <<QualityMin(df[1]), QualityMax(df[1])>>
    /\ quality_range[1] # <<4, 8>>

----------------------------------------------------------------------------
(* C9 *)

\* C9: filtering the filtered frame again with the same criteria gives the
\* filtered frame, and the filtered frame is df with rows left out, the
\* rows that stay in the order they have in df.
C9_FilterIdempotent ==
    filtered_df # None =>
        /\ FilterRows(filtered_df[1], wine_selection[1], quality_range[1])
              = filtered_df[1]
        /\ IsSubSeq(filtered_df[1], df[1])

\* A filtered frame of two rows that differ, taken from a base of three.
C9_Witness ==
    /\ filtered_df # None
    /\ Len(df[1]) = 3
    /\ Len(filtered_df[1]) = 2
    /\ filtered_df[1][1] # filtered_df[1][2]
    /\ filtered_df[1][1] # df[1][1]

----------------------------------------------------------------------------
(* C10 *)

\* C10: in every run, whatever the runs before it, each thing shown is
\* computed from the frame the files describe and the criteria in force: the
\* filtered frame is the filter of that frame by those criteria, and the
\* sample count, the four statistics, the grouped means, the input of the
\* correlation and the table are those of that filtered frame.
C10_RecomputedFromBase ==
    LET current == FilterRows(BaseOfFiles, CriteriaLabels, CriteriaRange)
    IN  /\ (wine_selection # None => wine_selection[1] = CriteriaLabels)
        /\ (quality_range # None => quality_range[1] = CriteriaRange)
        /\ (filtered_df # None => filtered_df[1] = current)
        /\ (metrics # None => metrics[1] = Metrics(current))
        /\ (avg_fsd # None => avg_fsd[1] = GroupedMean(current))
        /\ (corr_input # None => corr_input[1] = DropType(current))
        /\ (table # None => table[1] = current)

\* The end of a later run of a session: the user has moved both ends of the
\* slider away from their defaults, and the table shows two of three rows.
C10_Witness ==
    /\ pc = "idle"
    /\ ui # None
    /\ ui[1].selection = {"Red", "White"}
    /\ ui[1].range[1] > 4
    /\ ui[1].range[2] > 8
    /\ Len(table[1]) = 2
    /\ Len(df[1]) = 3

====
